---- MODULE Spec2Model ----
(***************************************************************************)
(* Meme editor: the Layer Store reducer of hooks/useMemeEditor.js          *)
(* (memeEditorReducer and the dispatch wrappers of useMemeEditor).         *)
(*                                                                         *)
(* Encoding of JavaScript values:                                          *)
(*   - a layer object is a record with the thirteen fields of newLayer;    *)
(*   - `undefined` as an array element is the record [undefined |-> TRUE]; *)
(*   - null in an id position (selectedLayerId, an id payload) is NULL_ID, *)
(*     null in the baseImage position is NULL_IMAGE (TLC cannot compare an *)
(*     integer with a string, so each position has its own null);          *)
(*   - array indices are 0-based as in the source (Get/Set translate).     *)
(***************************************************************************)
EXTENDS Integers, Sequences, FiniteSets, TLC

VARIABLES
    state,      \* the useReducer state {baseImage, textLayers, selectedLayerId, nextLayerId}
    threw,      \* the type of the last dispatched action if the reducer threw a
                \* TypeError on it, NoThrow if it returned a state
    created,    \* history: the ids given to new layers since the initial state, in creation order
    \* CanvasEditor (components/CanvasEditor.js)
    dragging,       \* useState: id of the layer being dragged, or null
    resizing,       \* useState: never set to anything but null
    dragStart,      \* useState: pointer offset {x, y} from the layer's corner at press
    editingLayer,   \* useState: id of the layer whose text is edited, or null
    pressed,        \* history: a press has hit a layer and no release or leave
                    \* of the pointer has followed it
    loads,          \* the Image objects of renderCanvas whose onload has not run yet,
                    \* in the order they were started, each with the closure of its render
    surface,        \* what the mounted canvas element shows
    \* RightPanel (second part of hooks/useMemeEditor.js)
    timers,         \* pending setTimeout callbacks of the debounce effect
    preview,        \* useState: the preview shown, given by the payload it was rendered from
    rendering,      \* useState
    sharing,        \* useState
    shareUrl,       \* useState
    rightError,     \* useState error of RightPanel
    \* LeftPanel (components/LeftPanel.js)
    templates,      \* useState
    loading,        \* useState
    uploading,      \* useState
    leftError,      \* useState error of LeftPanel
    \* services/api.js
    inflight,       \* the calls to the backend that have not settled yet, in the order issued
    renderLog       \* history: the payload of the most recently issued render request,
                    \* how it ended, and the payload of the request that succeeded last

storeVars == <<state, threw, created>>
pointerVars == <<dragging, resizing, dragStart, editingLayer, pressed>>
effectVars == <<loads, surface, timers>>
rightVars == <<preview, rendering, sharing, shareUrl, rightError>>
leftVars == <<templates, loading, uploading, leftError>>
apiVars == <<inflight, renderLog>>
uiVars == <<pointerVars, effectVars, rightVars, leftVars, apiVars>>

vars == <<storeVars, uiVars>>

-----------------------------------------------------------------------------
(* Bounds of the model *)

\* AddTextLayer is not taken once nextLayerId exceeds this (specification Spec).
MaxLayerId == 3
\* The same cap for the specifications that only add, delete and set the image.
MaxLayerIdSmall == 6
\* The cap of the Add Text Layer button in SpecPointer.
MaxPointerLayerId == 2
\* The cap of the Add Text Layer button in SpecDrag.
MaxDragLayerId == 2
\* The cap of the Add Text Layer button in SpecSize.
MaxSizeLayerId == 1
\* The cap of the Add Text Layer button in SpecLoads.
MaxLoadsLayerId == 2
\* Image loads pending at a time in SpecLoads.
MaxLoads == 2
\* The cap of the Add Text Layer button in SpecPreview.
MaxPreviewLayerId == 1
\* Render requests in flight at a time in SpecPreview.
MaxInflight == 2
\* Calls to the backend in flight at a time in SpecCalls.
MaxCallsInflight == 1

-----------------------------------------------------------------------------
(* JavaScript values *)

NULL_ID == -1
NULL_IMAGE == "null"
undefined == [undefined |-> TRUE]

IsLayer(l) == "id" \in DOMAIN l

\* arr[i] for a 0-based index i: out of range reads give undefined.
Get(arr, i) == IF 0 <= i /\ i < Len(arr) THEN arr[i + 1] ELSE undefined

\* arr[i] = v for a 0-based index i. A negative i sets the property "-1" of
\* the array object, which is no element: length and iteration ignore it.
Set(arr, i, v) ==
    IF 0 <= i /\ i < Len(arr) THEN [arr EXCEPT ![i + 1] = v]
    ELSE IF i = Len(arr) THEN Append(arr, v)
    ELSE arr

\* v || null
OrNull(v) == IF v = 0 \/ v = NULL_ID THEN NULL_ID ELSE v

\* { ...layer, ...updates }
Spread(layer, updates) ==
    [f \in DOMAIN layer \cup DOMAIN updates |->
        IF f \in DOMAIN updates THEN updates[f] ELSE layer[f]]

\* textLayers.findIndex(l => l.id === id): 0-based index of the first match, or -1.
findIndex(textLayers, id) ==
    LET hits == {i \in 1..Len(textLayers) :
                    IsLayer(textLayers[i]) /\ textLayers[i].id = id}
    IN  IF hits = {} THEN -1
        ELSE (CHOOSE i \in hits : \A j \in hits : i <= j) - 1

\* The callback l => l.id === id reads l.id of an undefined element (TypeError)
\* when findIndex reaches such an element before a match.
findIndexThrows(textLayers, id) ==
    \E i \in 1..Len(textLayers) :
        /\ ~IsLayer(textLayers[i])
        /\ \A j \in 1..(i - 1) : textLayers[j].id # id

\* map and filter call their callback on every element.
HasUndefined(textLayers) ==
    \E i \in 1..Len(textLayers) : ~IsLayer(textLayers[i])

-----------------------------------------------------------------------------
(* The reducer *)

initialState ==
    [baseImage |-> NULL_IMAGE,
     textLayers |-> <<>>,
     selectedLayerId |-> NULL_ID,
     nextLayerId |-> 1]

\* Faulty variant of newLayer: the id is taken from the number of layers
\* instead of the counter.
newLayer_IdFromLength(s) ==
    [id |-> Len(s.textLayers) + 1,
     text |-> "Double click to edit",
     x |-> 50,
     y |-> 50,
     fontSize |-> 48,
     fontFamily |-> "Impact, Arial Black, sans-serif",
     color |-> "#FFFFFF",
     strokeColor |-> "#000000",
     strokeWidth |-> 2,
     textAlign |-> "center",
     rotation |-> 0,
     width |-> 300,
     height |-> 60]

newLayer(s) ==
    [id |-> s.nextLayerId,
     text |-> "Double click to edit",
     x |-> 50,
     y |-> 50,
     fontSize |-> 48,
     fontFamily |-> "Impact, Arial Black, sans-serif",
     color |-> "#FFFFFF",
     strokeColor |-> "#000000",
     strokeWidth |-> 2,
     textAlign |-> "center",
     rotation |-> 0,
     width |-> 300,
     height |-> 60]

\* Faulty variant of SET_BASE_IMAGE: spreads initialState instead of state,
\* which also resets the counter.
SET_BASE_IMAGE_FromInitial(s, payload) ==
    [initialState EXCEPT !.baseImage = payload]

\* Faulty variant of SET_BASE_IMAGE: the selection is not cleared.
SET_BASE_IMAGE_KeepsSelection(s, payload) ==
    [s EXCEPT !.baseImage = payload,
              !.textLayers = <<>>]

SET_BASE_IMAGE(s, payload) ==
    [s EXCEPT !.baseImage = payload,
              !.textLayers = <<>>,
              !.selectedLayerId = NULL_ID]

\* Faulty variant of ADD_TEXT_LAYER: the new layer is put first (bottommost).
ADD_TEXT_LAYER_Prepends(s) ==
    [s EXCEPT !.textLayers = <<newLayer(s)>> \o s.textLayers,
              !.selectedLayerId = newLayer(s).id,
              !.nextLayerId = s.nextLayerId + 1]

ADD_TEXT_LAYER(s) ==
    [s EXCEPT !.textLayers = Append(s.textLayers, newLayer(s)),
              !.selectedLayerId = newLayer(s).id,
              !.nextLayerId = s.nextLayerId + 1]

\* Faulty variant of UPDATE_TEXT_LAYER: the id test is missing, every layer
\* is merged with the updates.
UPDATE_TEXT_LAYER_AllLayers(s, payload) ==
    [s EXCEPT !.textLayers =
        [i \in 1..Len(s.textLayers) |->
            Spread(s.textLayers[i], payload.updates)]]

UPDATE_TEXT_LAYER(s, payload) ==
    [s EXCEPT !.textLayers =
        [i \in 1..Len(s.textLayers) |->
            IF s.textLayers[i].id = payload.id
            THEN Spread(s.textLayers[i], payload.updates)
            ELSE s.textLayers[i]]]

remainingLayers(s, payload) ==
    SelectSeq(s.textLayers, LAMBDA layer : layer.id # payload)

\* Faulty variant of DELETE_TEXT_LAYER: the selection is not adjusted.
DELETE_TEXT_LAYER_KeepsSelection(s, payload) ==
    [s EXCEPT !.textLayers = remainingLayers(s, payload)]

DELETE_TEXT_LAYER(s, payload) ==
    [s EXCEPT !.textLayers = remainingLayers(s, payload),
              !.selectedLayerId =
                  IF s.selectedLayerId = payload
                  THEN IF remainingLayers(s, payload) = <<>>
                       THEN NULL_ID
                       ELSE OrNull(remainingLayers(s, payload)[1].id)
                  ELSE s.selectedLayerId]

SELECT_LAYER(s, payload) ==
    [s EXCEPT !.selectedLayerId = payload]

\* Faulty variant of MOVE_LAYER_UP: up and down are confused, the layer is
\* swapped with its neighbour towards index 0.
MOVE_LAYER_UP_TowardsStart(s, payload) ==
    LET upIndex == findIndex(s.textLayers, payload)
        newLayers == s.textLayers
        a == Get(newLayers, upIndex - 1)
        b == Get(newLayers, upIndex)
    IN  IF upIndex > 0
        THEN [s EXCEPT !.textLayers = Set(Set(newLayers, upIndex, a), upIndex - 1, b)]
        ELSE s

MOVE_LAYER_UP(s, payload) ==
    LET upIndex == findIndex(s.textLayers, payload)
        newLayers == s.textLayers
        a == Get(newLayers, upIndex + 1)
        b == Get(newLayers, upIndex)
    IN  IF upIndex < Len(s.textLayers) - 1
        THEN [s EXCEPT !.textLayers = Set(Set(newLayers, upIndex, a), upIndex + 1, b)]
        ELSE s

MOVE_LAYER_DOWN(s, payload) ==
    LET downIndex == findIndex(s.textLayers, payload)
        newLayers == s.textLayers
        a == Get(newLayers, downIndex - 1)
        b == Get(newLayers, downIndex)
    IN  IF downIndex > 0
        THEN [s EXCEPT !.textLayers = Set(Set(newLayers, downIndex, a), downIndex - 1, b)]
        ELSE s

\* Faulty variant of RESET: the counter of the current state is kept.
RESET_KeepsCounter ==
    [initialState EXCEPT !.nextLayerId = state.nextLayerId]

RESET == initialState

memeEditorReducer(s, action) ==
    CASE action.type = "SET_BASE_IMAGE"    -> SET_BASE_IMAGE(s, action.payload)
      [] action.type = "ADD_TEXT_LAYER"    -> ADD_TEXT_LAYER(s)
      [] action.type = "UPDATE_TEXT_LAYER" -> UPDATE_TEXT_LAYER(s, action.payload)
      [] action.type = "DELETE_TEXT_LAYER" -> DELETE_TEXT_LAYER(s, action.payload)
      [] action.type = "SELECT_LAYER"      -> SELECT_LAYER(s, action.payload)
      [] action.type = "MOVE_LAYER_UP"     -> MOVE_LAYER_UP(s, action.payload)
      [] action.type = "MOVE_LAYER_DOWN"   -> MOVE_LAYER_DOWN(s, action.payload)
      [] action.type = "RESET"             -> RESET
      [] OTHER                             -> s

\* The reducer call ends in a TypeError instead of a new state.
reducerThrows(s, action) ==
    CASE action.type \in {"UPDATE_TEXT_LAYER", "DELETE_TEXT_LAYER"} ->
            HasUndefined(s.textLayers)
      [] action.type \in {"MOVE_LAYER_UP", "MOVE_LAYER_DOWN"} ->
            findIndexThrows(s.textLayers, action.payload)
      [] OTHER -> FALSE

-----------------------------------------------------------------------------
(* The dispatch wrappers of useMemeEditor, called on their own: the *)
(* components are left as they are.                                  *)

NoThrow == "none"

dispatch(action) ==
    /\ threw' = IF reducerThrows(state, action) THEN action.type ELSE NoThrow
    /\ state' = IF reducerThrows(state, action)
                THEN state
                ELSE memeEditorReducer(state, action)
    /\ created' = CASE action.type = "ADD_TEXT_LAYER" ->
                          Append(created, state'.textLayers[Len(state'.textLayers)].id)
                    [] action.type = "RESET" -> <<>>
                    [] OTHER -> created

setBaseImage(imageUrl) ==
    /\ dispatch([type |-> "SET_BASE_IMAGE", payload |-> imageUrl])
    /\ UNCHANGED uiVars

addTextLayer(max) ==
    /\ state.nextLayerId <= max
    /\ dispatch([type |-> "ADD_TEXT_LAYER"])
    /\ UNCHANGED uiVars

updateTextLayer(id, updates) ==
    /\ dispatch([type |-> "UPDATE_TEXT_LAYER",
                 payload |-> [id |-> id, updates |-> updates]])
    /\ UNCHANGED uiVars

deleteTextLayer(id) ==
    /\ dispatch([type |-> "DELETE_TEXT_LAYER", payload |-> id])
    /\ UNCHANGED uiVars

selectLayer(id) ==
    /\ dispatch([type |-> "SELECT_LAYER", payload |-> id])
    /\ UNCHANGED uiVars

moveLayerUp(id) ==
    /\ dispatch([type |-> "MOVE_LAYER_UP", payload |-> id])
    /\ UNCHANGED uiVars

moveLayerDown(id) ==
    /\ dispatch([type |-> "MOVE_LAYER_DOWN", payload |-> id])
    /\ UNCHANGED uiVars

reset ==
    /\ dispatch([type |-> "RESET"])
    /\ UNCHANGED uiVars

-----------------------------------------------------------------------------
(* The effects of CanvasEditor and RightPanel on [baseImage, textLayers] *)

\* `baseImage && ...`, `!baseImage`
Truthy(baseImage) == baseImage # NULL_IMAGE

\* Whether the reducer hands back another baseImage or another textLayers
\* array than the ones of s, which is what makes React run the effects with
\* the dependencies [baseImage, textLayers] again. SELECT_LAYER copies the
\* state but keeps the array; a MOVE_LAYER_* outside its guard returns the
\* same state; map, filter and the array literals always make a new array.
\* RESET hands back initialState, whose baseImage and array differ from
\* those of every state other than initialState itself.
depsChanged(s, action) ==
    CASE action.type \in {"SET_BASE_IMAGE", "ADD_TEXT_LAYER",
                          "UPDATE_TEXT_LAYER", "DELETE_TEXT_LAYER"} -> TRUE
      [] action.type = "SELECT_LAYER" -> FALSE
      [] action.type = "MOVE_LAYER_UP" ->
            findIndex(s.textLayers, action.payload) < Len(s.textLayers) - 1
      [] action.type = "MOVE_LAYER_DOWN" ->
            findIndex(s.textLayers, action.payload) > 0
      [] action.type = "RESET" -> s # initialState

\* The canvas with nothing on it: after clearRect, and when no canvas element
\* is rendered at all.
blankSurface == [image |-> NULL_IMAGE, layers |-> <<>>]

\* drawTextLayer: the text of the layer with its style at its place, and the
\* dashed rectangle if the layer is the selected one of the render that
\* started the load.
drawTextLayer(layer, selectedLayerId) ==
    [layer |-> layer, selection |-> layer.id = selectedLayerId]

\* img.onload of a load: the canvas is resized, which wipes it, then the
\* image and the layers of the load's own render are drawn.
onload(load) ==
    [image |-> load.baseImage,
     layers |-> [i \in 1..Len(load.textLayers) |->
                    drawTextLayer(load.textLayers[i], load.selectedLayerId)]]

\* Faulty variant of renderCanvas: no new load is started.
renderCanvas_NoLoad ==
    /\ surface' = blankSurface
    /\ loads' = loads

\* renderCanvas, run by the effect after the render of state'. Without a
\* base image no canvas element is rendered and canvasRef.current is null:
\* the loads still pending keep the element that left the document.
renderCanvas ==
    IF ~Truthy(state'.baseImage)
    THEN /\ surface' = blankSurface
         /\ loads' = [i \in 1..Len(loads) |-> [loads[i] EXCEPT !.attached = FALSE]]
    ELSE /\ surface' = blankSurface
         /\ loads' = Append(loads, [baseImage |-> state'.baseImage,
                                    textLayers |-> state'.textLayers,
                                    selectedLayerId |-> state'.selectedLayerId,
                                    attached |-> TRUE])

\* Faulty variant of the debounce effect: the cleanup does not clear the
\* timer of the previous run.
debounceEffect_NoCleanup ==
    timers' = IF Truthy(state'.baseImage) /\ Len(state'.textLayers) > 0
              THEN Append([i \in 1..Len(timers) |-> [timers[i] EXCEPT !.current = FALSE]],
                          [baseImage |-> state'.baseImage,
                           textLayers |-> state'.textLayers,
                           current |-> TRUE])
              ELSE timers

\* The debounce effect of RightPanel, run after the render of state': the
\* cleanup of the previous run clears the timer that run set (if it has not
\* fired), then a new timer is set if there is an image and a layer. The
\* timer calls the generatePreview of the render that set it.
debounceEffect ==
    LET cleared == SelectSeq(timers, LAMBDA t : ~t.current)
    IN  timers' = IF Truthy(state'.baseImage) /\ Len(state'.textLayers) > 0
                  THEN Append(cleared, [baseImage |-> state'.baseImage,
                                        textLayers |-> state'.textLayers,
                                        current |-> TRUE])
                  ELSE cleared

\* A dispatch from a component: the reducer, the render, and the two effects
\* if their dependencies changed.
commit(action) ==
    /\ dispatch(action)
    /\ IF ~reducerThrows(state, action) /\ depsChanged(state, action)
       THEN renderCanvas /\ debounceEffect
       ELSE UNCHANGED effectVars

-----------------------------------------------------------------------------
(* CanvasEditor *)

\* The box test of the hit loops.
inBox(layer, x, y) ==
    /\ x >= layer.x
    /\ x <= layer.x + layer.width
    /\ y >= layer.y
    /\ y <= layer.y + layer.height

\* Faulty variant of hitLoop: the walk starts at the first layer and goes up.
RECURSIVE hitLoop_FromStart(_, _, _, _)
hitLoop_FromStart(textLayers, i, x, y) ==
    LET j == Len(textLayers) - 1 - i
    IN  IF i < 0 THEN -1
        ELSE IF inBox(Get(textLayers, j), x, y) THEN j
        ELSE hitLoop_FromStart(textLayers, i - 1, x, y)

\* for (let i = textLayers.length - 1; i >= 0; i--) { if (box test) { ...; break; } }
\* from index i down: the index at which the loop breaks, -1 if it runs out.
RECURSIVE hitLoop(_, _, _, _)
hitLoop(textLayers, i, x, y) ==
    IF i < 0 THEN -1
    ELSE IF inBox(Get(textLayers, i), x, y) THEN i
    ELSE hitLoop(textLayers, i - 1, x, y)

\* Faulty variant of max0: no clamp.
max0_NoClamp(v) == v

\* Math.max(0, v)
max0(v) == IF v > 0 THEN v ELSE 0

\* The canvas element exists, and takes pointer events, while there is a base image.
handleMouseDown(x, y) ==
    /\ Truthy(state.baseImage)
    /\ LET i == hitLoop(state.textLayers, Len(state.textLayers) - 1, x, y)
           layer == Get(state.textLayers, i)
       IN  IF i >= 0
           THEN /\ commit([type |-> "SELECT_LAYER", payload |-> layer.id])
                /\ dragging' = layer.id
                /\ dragStart' = [x |-> x - layer.x, y |-> y - layer.y]
                /\ pressed' = TRUE
                /\ UNCHANGED <<resizing, editingLayer>>
           ELSE UNCHANGED <<storeVars, pointerVars, effectVars>>
    /\ UNCHANGED <<rightVars, leftVars, apiVars>>

\* Faulty variant of handleMouseMove: the drag pulls the far corner of the
\* box, as a resize would.
handleMouseMove_Resizes(x, y) ==
    /\ Truthy(state.baseImage)
    /\ IF dragging = NULL_ID
       THEN UNCHANGED <<storeVars, effectVars>>
       ELSE commit([type |-> "UPDATE_TEXT_LAYER",
                    payload |-> [id |-> dragging,
                                 updates |-> [width |-> max0(x - dragStart.x),
                                              height |-> max0(y - dragStart.y)]]])
    /\ UNCHANGED <<pointerVars, rightVars, leftVars, apiVars>>

handleMouseMove(x, y) ==
    /\ Truthy(state.baseImage)
    /\ IF dragging = NULL_ID
       THEN UNCHANGED <<storeVars, effectVars>>
       ELSE commit([type |-> "UPDATE_TEXT_LAYER",
                    payload |-> [id |-> dragging,
                                 updates |-> [x |-> max0(x - dragStart.x),
                                              y |-> max0(y - dragStart.y)]]])
    /\ UNCHANGED <<pointerVars, rightVars, leftVars, apiVars>>

\* Faulty variant of handleMouseUp: the drag is not ended.
handleMouseUp_KeepsDragging ==
    /\ Truthy(state.baseImage)
    /\ dragging' = dragging
    /\ resizing' = NULL_ID
    /\ pressed' = FALSE
    /\ UNCHANGED <<storeVars, dragStart, editingLayer, effectVars,
                   rightVars, leftVars, apiVars>>

\* onMouseUp and onMouseLeave
handleMouseUp ==
    /\ Truthy(state.baseImage)
    /\ dragging' = NULL_ID
    /\ resizing' = NULL_ID
    /\ pressed' = FALSE
    /\ UNCHANGED <<storeVars, dragStart, editingLayer, effectVars,
                   rightVars, leftVars, apiVars>>

handleDoubleClick(x, y) ==
    /\ Truthy(state.baseImage)
    /\ LET i == hitLoop(state.textLayers, Len(state.textLayers) - 1, x, y)
       IN  editingLayer' = IF i >= 0 THEN Get(state.textLayers, i).id ELSE editingLayer
    /\ UNCHANGED <<storeVars, dragging, resizing, dragStart, pressed, effectVars,
                   rightVars, leftVars, apiVars>>

\* Faulty variant of handleTextEdit: the text goes to the selected layer.
handleTextEdit_SelectedLayer(newText) ==
    /\ editingLayer # NULL_ID
    /\ commit([type |-> "UPDATE_TEXT_LAYER",
               payload |-> [id |-> state.selectedLayerId,
                            updates |-> [text |-> newText]]])
    /\ editingLayer' = NULL_ID
    /\ UNCHANGED <<dragging, resizing, dragStart, pressed, rightVars, leftVars, apiVars>>

\* Enter in the input of the modal, or its Save button: the modal is rendered
\* while editingLayer is set.
handleTextEdit(newText) ==
    /\ editingLayer # NULL_ID
    /\ commit([type |-> "UPDATE_TEXT_LAYER",
               payload |-> [id |-> editingLayer, updates |-> [text |-> newText]]])
    /\ editingLayer' = NULL_ID
    /\ UNCHANGED <<dragging, resizing, dragStart, pressed, rightVars, leftVars, apiVars>>

\* The Cancel button of the modal.
cancelTextEdit ==
    /\ editingLayer # NULL_ID
    /\ editingLayer' = NULL_ID
    /\ UNCHANGED <<storeVars, dragging, resizing, dragStart, pressed, effectVars,
                   rightVars, leftVars, apiVars>>

\* The Add Text Layer button under the canvas.
onAddLayer(max) ==
    /\ Truthy(state.baseImage)
    /\ state.nextLayerId <= max
    /\ commit([type |-> "ADD_TEXT_LAYER"])
    /\ UNCHANGED <<pointerVars, rightVars, leftVars, apiVars>>

\* The load at place i of loads completes: its onload draws on the canvas
\* element its render had, which shows only if that element is still the
\* one in the document.
imageLoaded(i) ==
    /\ i \in 1..Len(loads)
    /\ surface' = IF loads[i].attached THEN onload(loads[i]) ELSE surface
    /\ loads' = [j \in 1..(Len(loads) - 1) |-> IF j < i THEN loads[j] ELSE loads[j + 1]]
    /\ UNCHANGED <<storeVars, pointerVars, timers, rightVars, leftVars, apiVars>>

-----------------------------------------------------------------------------
(* services/api.js *)

NULL_TEXT == "null"     \* null where the other values are strings

\* What a handler gets from an awaited call: a value, or an Error thrown.
Returned(v) == [thrown |-> FALSE, value |-> v]
Thrown(message) == [thrown |-> TRUE, message |-> message]

\* `HTTP error! status: ${response.status}`
httpError(status) ==
    CASE status = 500 -> "HTTP error! status: 500"
      [] status = 404 -> "HTTP error! status: 404"

\* error.message || `HTTP error! status: ${response.status}`, where error is
\* the parsed body, or {message: fallback} if the body does not parse.
errorOf(response, fallback) ==
    LET error == IF response.parses THEN response.json ELSE [message |-> fallback]
    IN  IF "message" \in DOMAIN error /\ error.message # ""
        THEN error.message
        ELSE httpError(response.status)

\* A response is [rejected |-> TRUE, message] when fetch itself rejects, else
\* [rejected |-> FALSE, ok, status, parses, json]: parses tells whether
\* response.json() resolves, json is what it resolves to.
handleResponse(response) ==
    IF ~response.ok
    THEN Thrown(errorOf(response, "Request failed"))
    ELSE IF ~response.parses
    THEN Thrown("Unexpected end of JSON input")
    ELSE Returned(response.json)

\* getTemplates, uploadImage, shareMeme
viaHandleResponse(response) ==
    IF response.rejected THEN Thrown(response.message) ELSE handleResponse(response)

\* renderMeme: its own check of response.ok, and response.blob() otherwise;
\* the blob is the picture of the payload that was sent.
renderMeme(memeData, response) ==
    IF response.rejected THEN Thrown(response.message)
    ELSE IF ~response.ok THEN Thrown(errorOf(response, "Render failed"))
    ELSE Returned([blobOf |-> memeData])

\* The call at place i of inflight settles and leaves the list.
settled(i) ==
    [j \in 1..(Len(inflight) - 1) |-> IF j < i THEN inflight[j] ELSE inflight[j + 1]]

-----------------------------------------------------------------------------
(* LeftPanel and TopNav *)

\* loadTemplates up to its await: run once when the panel is mounted, and by
\* the Retry button.
loadTemplates ==
    /\ loading' = TRUE
    /\ leftError' = NULL_TEXT
    /\ inflight' = Append(inflight, [kind |-> "templates", before |-> state])
    /\ UNCHANGED <<storeVars, pointerVars, effectVars, rightVars,
                   templates, uploading, renderLog>>

\* The Retry button, rendered inside the error message.
retryClick(max) ==
    /\ leftError # NULL_TEXT
    /\ Len(inflight) < max
    /\ loadTemplates

\* loadTemplates from its await on.
templatesSettled(i, response) ==
    /\ i \in 1..Len(inflight)
    /\ inflight[i].kind = "templates"
    /\ LET data == viaHandleResponse(response)
       IN  /\ templates' = IF data.thrown THEN templates ELSE data.value
           /\ leftError' = IF data.thrown THEN data.message ELSE leftError
    /\ loading' = FALSE
    /\ inflight' = settled(i)
    /\ UNCHANGED <<storeVars, pointerVars, effectVars, rightVars, uploading, renderLog>>

\* handleFileUpload up to its await; the input is disabled while uploading.
handleFileUpload(file, max) ==
    /\ ~uploading
    /\ Len(inflight) < max
    /\ uploading' = TRUE
    /\ leftError' = NULL_TEXT
    /\ inflight' = Append(inflight, [kind |-> "upload", file |-> file, before |-> state])
    /\ UNCHANGED <<storeVars, pointerVars, effectVars, rightVars,
                   templates, loading, renderLog>>

\* Faulty variant of uploadSettled: a failed upload clears the base image.
uploadSettled_ClearsImage(i, response) ==
    /\ i \in 1..Len(inflight)
    /\ inflight[i].kind = "upload"
    /\ LET result == viaHandleResponse(response)
       IN  /\ commit([type |-> "SET_BASE_IMAGE",
                      payload |-> IF result.thrown THEN NULL_IMAGE
                                  ELSE result.value.imageUrl])
           /\ leftError' = IF result.thrown THEN result.message ELSE leftError
    /\ uploading' = FALSE
    /\ inflight' = settled(i)
    /\ UNCHANGED <<pointerVars, rightVars, templates, loading, renderLog>>

\* handleFileUpload from its await on.
uploadSettled(i, response) ==
    /\ i \in 1..Len(inflight)
    /\ inflight[i].kind = "upload"
    /\ LET result == viaHandleResponse(response)
       IN  IF result.thrown
           THEN /\ leftError' = result.message
                /\ UNCHANGED <<storeVars, effectVars>>
           ELSE /\ commit([type |-> "SET_BASE_IMAGE", payload |-> result.value.imageUrl])
                /\ UNCHANGED leftError
    /\ uploading' = FALSE
    /\ inflight' = settled(i)
    /\ UNCHANGED <<pointerVars, rightVars, templates, loading, renderLog>>

\* A click on the card at place t of the template grid.
templateClick(t) ==
    /\ t \in 1..Len(templates)
    /\ commit([type |-> "SET_BASE_IMAGE", payload |-> templates[t].url])
    /\ UNCHANGED <<pointerVars, rightVars, leftVars, apiVars>>

\* The Reset button of TopNav.
onReset ==
    /\ commit([type |-> "RESET"])
    /\ UNCHANGED <<pointerVars, rightVars, leftVars, apiVars>>

-----------------------------------------------------------------------------
(* RightPanel *)

NULL_PREVIEW == [null |-> TRUE]     \* useState(null) of preview

\* textLayers.find((l) => l.id === selectedLayerId)
find(textLayers, id) ==
    LET i == findIndex(textLayers, id) IN Get(textLayers, i)

\* The body sent by generatePreview and handleShare.
memeData(baseImage, textLayers) ==
    [baseImage |-> baseImage,
     textLayers |-> [i \in 1..Len(textLayers) |->
        [text |-> textLayers[i].text,
         x |-> textLayers[i].x,
         y |-> textLayers[i].y,
         fontSize |-> textLayers[i].fontSize,
         fontFamily |-> textLayers[i].fontFamily,
         color |-> textLayers[i].color,
         strokeColor |-> textLayers[i].strokeColor,
         strokeWidth |-> textLayers[i].strokeWidth,
         textAlign |-> textLayers[i].textAlign,
         rotation |-> textLayers[i].rotation]]]

\* generatePreview up to its await, with the baseImage and textLayers of the
\* render whose generatePreview it is. The request issued becomes the most
\* recently issued one.
generatePreview(baseImage, textLayers) ==
    IF ~Truthy(baseImage)
    THEN UNCHANGED <<rendering, rightError, inflight, renderLog>>
    ELSE /\ rendering' = TRUE
         /\ rightError' = NULL_TEXT
         /\ inflight' = Append([j \in 1..Len(inflight) |->
                                   IF inflight[j].kind = "render"
                                   THEN [inflight[j] EXCEPT !.latest = FALSE]
                                   ELSE inflight[j]],
                               [kind |-> "render",
                                payload |-> memeData(baseImage, textLayers),
                                latest |-> TRUE,
                                before |-> state])
         /\ renderLog' = [renderLog EXCEPT !.issued = memeData(baseImage, textLayers),
                                            !.outcome = "pending"]

\* The debounce timer at place i of timers fires.
timerFires(i, max) ==
    /\ i \in 1..Len(timers)
    /\ Len(inflight) < max
    /\ timers' = [j \in 1..(Len(timers) - 1) |-> IF j < i THEN timers[j] ELSE timers[j + 1]]
    /\ generatePreview(timers[i].baseImage, timers[i].textLayers)
    /\ UNCHANGED <<storeVars, pointerVars, loads, surface,
                   preview, sharing, shareUrl, leftVars>>

\* The Generate Preview button, disabled={!baseImage || rendering}.
generateClick(max) ==
    /\ Truthy(state.baseImage)
    /\ ~rendering
    /\ Len(inflight) < max
    /\ generatePreview(state.baseImage, state.textLayers)
    /\ UNCHANGED <<storeVars, pointerVars, effectVars,
                   preview, sharing, shareUrl, leftVars>>

\* Variant of renderSettled: the response of a request that is no longer the
\* most recently issued one is dropped.
renderSettled_DropsStale(i, response) ==
    /\ i \in 1..Len(inflight)
    /\ inflight[i].kind = "render"
    /\ LET blob == renderMeme(inflight[i].payload, response)
       IN  /\ preview' = IF blob.thrown \/ ~inflight[i].latest THEN preview ELSE blob.value
           /\ rightError' = IF blob.thrown THEN blob.message ELSE rightError
           /\ renderLog' = [renderLog EXCEPT
                    !.outcome = IF ~inflight[i].latest THEN @
                                ELSE IF blob.thrown THEN "failed" ELSE "ok",
                    !.completed = IF blob.thrown THEN @ ELSE inflight[i].payload]
    /\ rendering' = FALSE
    /\ inflight' = settled(i)
    /\ UNCHANGED <<storeVars, pointerVars, effectVars, sharing, shareUrl, leftVars>>

\* generatePreview from its await on. URL.createObjectURL gives the blob a
\* URL of its own: the preview is known by the blob it shows.
renderSettled(i, response) ==
    /\ i \in 1..Len(inflight)
    /\ inflight[i].kind = "render"
    /\ LET blob == renderMeme(inflight[i].payload, response)
       IN  /\ preview' = IF blob.thrown THEN preview ELSE blob.value
           /\ rightError' = IF blob.thrown THEN blob.message ELSE rightError
           /\ renderLog' = [renderLog EXCEPT
                    !.outcome = IF ~inflight[i].latest THEN @
                                ELSE IF blob.thrown THEN "failed" ELSE "ok",
                    !.completed = IF blob.thrown THEN @ ELSE inflight[i].payload]
    /\ rendering' = FALSE
    /\ inflight' = settled(i)
    /\ UNCHANGED <<storeVars, pointerVars, effectVars, sharing, shareUrl, leftVars>>

\* handleShare up to its await: the Share button is rendered while there is
\* a preview, and disabled while sharing.
handleShare(max) ==
    /\ preview # NULL_PREVIEW
    /\ ~sharing
    /\ Len(inflight) < max
    /\ IF ~Truthy(state.baseImage)
       THEN UNCHANGED <<sharing, rightError, inflight>>
       ELSE /\ sharing' = TRUE
            /\ rightError' = NULL_TEXT
            /\ inflight' = Append(inflight,
                                  [kind |-> "share",
                                   payload |-> memeData(state.baseImage, state.textLayers),
                                   before |-> state])
    /\ UNCHANGED <<storeVars, pointerVars, effectVars,
                   preview, rendering, shareUrl, leftVars, renderLog>>

\* handleShare from its await on.
shareSettled(i, response) ==
    /\ i \in 1..Len(inflight)
    /\ inflight[i].kind = "share"
    /\ LET result == viaHandleResponse(response)
       IN  /\ shareUrl' = IF result.thrown THEN shareUrl ELSE result.value.shareUrl
           /\ rightError' = IF result.thrown THEN result.message ELSE rightError
    /\ sharing' = FALSE
    /\ inflight' = settled(i)
    /\ UNCHANGED <<storeVars, pointerVars, effectVars,
                   preview, rendering, leftVars, renderLog>>

\* A control of the selected layer changes: the controls are rendered while
\* selectedLayer is found, and pass selectedLayer.id.
controlChange(updates) ==
    /\ IsLayer(find(state.textLayers, state.selectedLayerId))
    /\ commit([type |-> "UPDATE_TEXT_LAYER",
               payload |-> [id |-> find(state.textLayers, state.selectedLayerId).id,
                            updates |-> updates]])
    /\ UNCHANGED <<pointerVars, rightVars, leftVars, apiVars>>

moveUpClick ==
    /\ IsLayer(find(state.textLayers, state.selectedLayerId))
    /\ commit([type |-> "MOVE_LAYER_UP",
               payload |-> find(state.textLayers, state.selectedLayerId).id])
    /\ UNCHANGED <<pointerVars, rightVars, leftVars, apiVars>>

moveDownClick ==
    /\ IsLayer(find(state.textLayers, state.selectedLayerId))
    /\ commit([type |-> "MOVE_LAYER_DOWN",
               payload |-> find(state.textLayers, state.selectedLayerId).id])
    /\ UNCHANGED <<pointerVars, rightVars, leftVars, apiVars>>

deleteClick ==
    /\ IsLayer(find(state.textLayers, state.selectedLayerId))
    /\ commit([type |-> "DELETE_TEXT_LAYER",
               payload |-> find(state.textLayers, state.selectedLayerId).id])
    /\ UNCHANGED <<pointerVars, rightVars, leftVars, apiVars>>

-----------------------------------------------------------------------------
(* Inputs *)

ImageInputs == {"img1"}

\* Ids a caller may pass: 0 is never assigned, an id above nextLayerId - 1 is
\* not assigned yet, NULL_ID is null.
IdInputs(max) == (0..max) \cup {NULL_ID}

\* Partial field sets a caller passes to updateTextLayer in the transitions.
UpdateInputs == {[fontSize |-> 80], [id |-> 0]}

-----------------------------------------------------------------------------
(* Specifications *)

\* The state after the first render: every useState at its initial value, no
\* canvas element (there is no base image), no debounce timer (its
\* condition is false), and the getTemplates call of LeftPanel's mount
\* effect in flight.
Init ==
    /\ state = initialState
    /\ threw = NoThrow
    /\ created = <<>>
    /\ dragging = NULL_ID
    /\ resizing = NULL_ID
    /\ dragStart = [x |-> 0, y |-> 0]
    /\ editingLayer = NULL_ID
    /\ pressed = FALSE
    /\ loads = <<>>
    /\ surface = blankSurface
    /\ timers = <<>>
    /\ preview = NULL_PREVIEW
    /\ rendering = FALSE
    /\ sharing = FALSE
    /\ shareUrl = NULL_TEXT
    /\ rightError = NULL_TEXT
    /\ templates = <<>>
    /\ loading = TRUE
    /\ uploading = FALSE
    /\ leftError = NULL_TEXT
    /\ inflight = <<[kind |-> "templates", before |-> initialState]>>
    /\ renderLog = [issued |-> NULL_PREVIEW, outcome |-> "none", completed |-> NULL_PREVIEW]

Next ==
    \/ \E u \in ImageInputs : setBaseImage(u)
    \/ addTextLayer(MaxLayerId)
    \/ \E id \in IdInputs(MaxLayerId), p \in UpdateInputs : updateTextLayer(id, p)
    \/ \E id \in IdInputs(MaxLayerId) : deleteTextLayer(id)
    \/ \E id \in IdInputs(MaxLayerId) : selectLayer(id)
    \/ \E id \in IdInputs(MaxLayerId) : moveLayerUp(id)
    \/ \E id \in IdInputs(MaxLayerId) : moveLayerDown(id)
    \/ reset

Spec == Init /\ [][Next]_vars

\* Only AddTextLayer and DeleteTextLayer.
NextAddDelete ==
    \/ addTextLayer(MaxLayerIdSmall)
    \/ \E id \in IdInputs(MaxLayerIdSmall) : deleteTextLayer(id)

SpecAddDelete == Init /\ [][NextAddDelete]_vars

\* AddTextLayer interleaved with DeleteTextLayer and SetBaseImage.
NextAddDeleteImage ==
    \/ addTextLayer(MaxLayerIdSmall)
    \/ \E id \in IdInputs(MaxLayerIdSmall) : deleteTextLayer(id)
    \/ \E u \in ImageInputs : setBaseImage(u)

SpecAddDeleteImage == Init /\ [][NextAddDeleteImage]_vars

\* What the backend answers to getTemplates.
TemplateData ==
    <<[id |-> "t1", name |-> "One", url |-> "img1"],
      [id |-> "t2", name |-> "Two", url |-> "img2"]>>

\* Where the pointer is, in canvas coordinates: inside the box of a new
\* layer, and outside it.
PointerInputs == {[x |-> 60, y |-> 60], [x |-> 400, y |-> 200]}

TextInputs == {"Hi"}

\* Places in the lists of pending loads, timers and calls.
Places == 1..4

\* The state once the template list has arrived.
InitLoaded ==
    /\ state = initialState
    /\ threw = NoThrow
    /\ created = <<>>
    /\ dragging = NULL_ID
    /\ resizing = NULL_ID
    /\ dragStart = [x |-> 0, y |-> 0]
    /\ editingLayer = NULL_ID
    /\ pressed = FALSE
    /\ loads = <<>>
    /\ surface = blankSurface
    /\ timers = <<>>
    /\ preview = NULL_PREVIEW
    /\ rendering = FALSE
    /\ sharing = FALSE
    /\ shareUrl = NULL_TEXT
    /\ rightError = NULL_TEXT
    /\ templates = TemplateData
    /\ loading = FALSE
    /\ uploading = FALSE
    /\ leftError = NULL_TEXT
    /\ inflight = <<>>
    /\ renderLog = [issued |-> NULL_PREVIEW, outcome |-> "none", completed |-> NULL_PREVIEW]

\* The events of the canvas and of the buttons that give it an image and
\* layers, when image loads are fast: each load completes before the next
\* event.
press(pt) ==
    /\ loads = <<>>
    /\ handleMouseDown(pt.x, pt.y)

move(pt) ==
    /\ loads = <<>>
    /\ handleMouseMove(pt.x, pt.y)

\* release, and the pointer leaving the canvas
release ==
    /\ loads = <<>>
    /\ handleMouseUp

doubleClick(pt) ==
    /\ loads = <<>>
    /\ handleDoubleClick(pt.x, pt.y)

commitEdit(newText) ==
    /\ loads = <<>>
    /\ handleTextEdit(newText)

cancelEdit ==
    /\ loads = <<>>
    /\ cancelTextEdit

addLayerButton(max) ==
    /\ loads = <<>>
    /\ onAddLayer(max)

templateCard(t) ==
    /\ loads = <<>>
    /\ templateClick(t)

control(updates) ==
    /\ loads = <<>>
    /\ controlChange(updates)

resetButton ==
    /\ loads = <<>>
    /\ onReset

NextPointer ==
    \/ \E pt \in PointerInputs : press(pt)
    \/ \E pt \in PointerInputs : move(pt)
    \/ release
    \/ \E pt \in PointerInputs : doubleClick(pt)
    \/ \E newText \in TextInputs : commitEdit(newText)
    \/ cancelEdit
    \/ addLayerButton(MaxPointerLayerId)
    \/ templateCard(1)
    \/ control([rotation |-> 45])
    \/ resetButton
    \/ \E i \in Places : imageLoaded(i)

SpecPointer == InitLoaded /\ [][NextPointer]_vars

\* The image and the layers change while image loads are pending, and the
\* loads complete in any order. A change waits while MaxLoads loads are
\* pending.
chooseImage(t) ==
    /\ Len(loads) < MaxLoads
    /\ templateClick(t)

addLayer ==
    /\ Len(loads) < MaxLoads
    /\ onAddLayer(MaxLoadsLayerId)

changeLayer(updates) ==
    /\ Len(loads) < MaxLoads
    /\ controlChange(updates)

NextLoads ==
    \/ \E t \in 1..Len(TemplateData) : chooseImage(t)
    \/ addLayer
    \/ changeLayer([fontSize |-> 80])
    \/ onReset
    \/ \E i \in Places : imageLoaded(i)

SpecLoads == InitLoaded /\ [][NextLoads]_vars

\* What fetch gives a call. A failure is a rejected fetch, or a response
\* that is not ok whose body does not parse, has a message, or has none.
FailureInputs ==
    {[rejected |-> TRUE, message |-> "Failed to fetch"],
     [rejected |-> FALSE, ok |-> FALSE, status |-> 500, parses |-> FALSE,
      json |-> [message |-> ""]],
     [rejected |-> FALSE, ok |-> FALSE, status |-> 500, parses |-> TRUE,
      json |-> [message |-> "Image not found"]],
     [rejected |-> FALSE, ok |-> FALSE, status |-> 404, parses |-> TRUE,
      json |-> [error |-> "Not found"]]}

ok(json) ==
    [rejected |-> FALSE, ok |-> TRUE, status |-> 200, parses |-> TRUE, json |-> json]

\* An ok response whose body is no JSON.
okUnparsable ==
    [rejected |-> FALSE, ok |-> TRUE, status |-> 200, parses |-> FALSE,
     json |-> [message |-> ""]]

\* What the render requests of SpecPreview get: the picture, or a failure.
RenderInputs ==
    {ok([blob |-> TRUE]), [rejected |-> TRUE, message |-> "Failed to fetch"]}

deleteButton ==
    /\ loads = <<>>
    /\ deleteClick

\* The preview of RightPanel: changes of the image and the layers, the
\* debounce timer, the Generate Preview button, and render requests that
\* settle in any order. A request waits while MaxInflight are in flight.
NextPreview ==
    \/ templateCard(1)
    \/ addLayerButton(MaxPreviewLayerId)
    \/ control([fontSize |-> 80])
    \/ deleteButton
    \/ \E i \in Places : imageLoaded(i)
    \/ \E i \in Places : timerFires(i, MaxInflight)
    \/ generateClick(MaxInflight)
    \/ \E i \in Places, r \in RenderInputs : renderSettled(i, r)

SpecPreview == InitLoaded /\ [][NextPreview]_vars

\* The calls of the two panels to the backend, from the first render on,
\* each settling with a success or a failure while the user goes on
\* choosing images; image loads are fast. A call waits while
\* MaxCallsInflight calls are in flight.
uploadAnswered(i, response) ==
    /\ loads = <<>>
    /\ uploadSettled(i, response)

NextCalls ==
    \/ \E t \in Places : templateCard(t)
    \/ \E i \in Places : imageLoaded(i)
    \/ retryClick(MaxCallsInflight)
    \/ \E i \in Places, r \in FailureInputs \cup {okUnparsable, ok(TemplateData)} :
            templatesSettled(i, r)
    \/ handleFileUpload("file1", MaxCallsInflight)
    \/ \E i \in Places, r \in FailureInputs \cup {okUnparsable, ok([imageUrl |-> "img1"])} :
            uploadAnswered(i, r)
    \/ generateClick(MaxCallsInflight)
    \/ \E i \in Places, r \in FailureInputs \cup {okUnparsable} :
            renderSettled(i, r)
    \/ handleShare(MaxCallsInflight)
    \/ \E i \in Places, r \in FailureInputs \cup {okUnparsable, ok([shareUrl |-> "share1"])} :
            shareSettled(i, r)

SpecCalls == Init /\ [][NextCalls]_vars

\* Where the pointer is in SpecDrag: inside the box of a new layer, and at a
\* place nearer to the canvas corner than the first is to the layer's corner.
DragInputs == {[x |-> 60, y |-> 60], [x |-> 5, y |-> 5]}

\* Drags on the canvas among the other things the user does to layers: text
\* edits, a control of the right panel, deleting. Image loads are fast.
NextDrag ==
    \/ \E pt \in DragInputs : press(pt)
    \/ \E pt \in DragInputs : move(pt)
    \/ release
    \/ \E pt \in DragInputs : doubleClick(pt)
    \/ \E newText \in TextInputs : commitEdit(newText)
    \/ cancelEdit
    \/ addLayerButton(MaxDragLayerId)
    \/ templateCard(1)
    \/ control([rotation |-> 45])
    \/ deleteButton
    \/ \E i \in Places : imageLoaded(i)

SpecDrag == InitLoaded /\ [][NextDrag]_vars

\* One use of each control of the selected layer: the patch it passes to
\* onUpdateLayer. The alignment is set by buttons, here the one for "center".
ControlInputs ==
    {[text |-> "Hi"], [fontSize |-> 80], [rotation |-> 45],
     [fontFamily |-> "Arial"], [color |-> "#000000"],
     [strokeColor |-> "#FFFFFF"], [strokeWidth |-> 4], [textAlign |-> "center"]}

\* Where the pointer is in SpecSize: inside the box of a new layer.
SizeInputs == {[x |-> 60, y |-> 60]}

\* Everything the user can do to a layer: drag it, edit its text, change it
\* with each control of the right panel. Image loads are fast.
NextSize ==
    \/ templateCard(1)
    \/ addLayerButton(MaxSizeLayerId)
    \/ \E pt \in SizeInputs : press(pt)
    \/ \E pt \in SizeInputs : move(pt)
    \/ release
    \/ \E pt \in SizeInputs : doubleClick(pt)
    \/ \E newText \in TextInputs : commitEdit(newText)
    \/ cancelEdit
    \/ \E updates \in ControlInputs : control(updates)
    \/ \E i \in Places : imageLoaded(i)

SpecSize == InitLoaded /\ [][NextSize]_vars

-----------------------------------------------------------------------------
(* Vocabulary of the properties *)

\* The id of an element of textLayers; an undefined element has none.
IdOf(l) == IF IsLayer(l) THEN l.id ELSE NULL_ID

\* The sequence of ids of a layer sequence.
Ids(textLayers) == [i \in 1..Len(textLayers) |-> IdOf(textLayers[i])]

\* Some layer of the sequence has this id.
Present(textLayers, id) ==
    \E i \in 1..Len(textLayers) : IsLayer(textLayers[i]) /\ textLayers[i].id = id

\* The state the store holds after dispatching the action from state s.
After(s, action) ==
    IF reducerThrows(s, action) THEN s ELSE memeEditorReducer(s, action)

-----------------------------------------------------------------------------
\* C1: after any sequence of AddTextLayer and DeleteTextLayer transitions from
\* the initial state, selectedLayerId is null or the id of a layer that is
\* currently in the layer sequence.
C1_SelectionConsistent ==
    \/ state.selectedLayerId = NULL_ID
    \/ Present(state.textLayers, state.selectedLayerId)

\* A selected layer was deleted while others remained: the selection fell
\* back to the first remaining layer.
C1_Witness ==
    /\ Len(created) = 3
    /\ Ids(state.textLayers) = <<1, 2>>
    /\ state.selectedLayerId = 1

-----------------------------------------------------------------------------
\* C2: UpdateTextLayer, DeleteTextLayer, MoveLayerUp and MoveLayerDown with an
\* id that no layer of the sequence has are silent no-ops: the layer sequence
\* after the transition equals the layer sequence before it.
C2_UnknownIdNoOp ==
    [][\A id \in IdInputs(MaxLayerId) :
          /\ ~Present(state.textLayers, id)
          /\ \/ \E p \in UpdateInputs : updateTextLayer(id, p)
             \/ deleteTextLayer(id)
             \/ moveLayerUp(id)
             \/ moveLayerDown(id)
          => state'.textLayers = state.textLayers]_vars

-----------------------------------------------------------------------------
\* C3 (as stated): nextLayerId never decreases, for every transition of the
\* store, Reset included.
C3_NeverDecreases ==
    [][state'.nextLayerId >= state.nextLayerId]_vars

\* C3 (amended): every transition other than Reset leaves nextLayerId greater
\* than or equal to its value before; Reset sets it to its initial value 1.
C3_NeverDecreasesButReset ==
    [][/\ ~reset => state'.nextLayerId >= state.nextLayerId
       /\ reset => state'.nextLayerId = 1]_vars

\* The counter kept its value through SetBaseImage after all layers were added.
C3_Witness ==
    /\ state.nextLayerId = MaxLayerId + 1
    /\ state.baseImage = "img1"
    /\ state.textLayers = <<>>

-----------------------------------------------------------------------------
\* C4: under AddTextLayer interleaved with DeleteTextLayer and SetBaseImage,
\* the ids of the layers present are pairwise distinct, and every new layer's
\* id is strictly greater than the id of every layer created before it.
C4_IdsUniqueIncreasing ==
    /\ \A i, j \in 1..Len(state.textLayers) :
          i # j => state.textLayers[i].id # state.textLayers[j].id
    /\ \A i, j \in 1..Len(created) : i < j => created[i] < created[j]

\* Layers 2 and 4 are present after layers 1 and 3 were deleted and an image set.
C4_Witness ==
    /\ state.baseImage = "img1"
    /\ Ids(state.textLayers) = <<2, 4>>
    /\ created = <<1, 2, 3, 4>>

-----------------------------------------------------------------------------
\* C5: UpdateTextLayer(id, partialFields) never changes the id of any layer:
\* the sequence of layer ids after the transition is the one before.
C5_UpdateKeepsIds ==
    [][\A id \in IdInputs(MaxLayerId), p \in UpdateInputs :
          updateTextLayer(id, p) => Ids(state'.textLayers) = Ids(state.textLayers)]_vars

-----------------------------------------------------------------------------
\* C6: DeleteTextLayer(id) of the selected layer sets selectedLayerId to the id
\* of the layer at index 0 of the remaining sequence, or to null when no layer
\* remains; DeleteTextLayer(id) of another layer leaves selectedLayerId as it is.
C6_DeleteSelection ==
    [][\A id \in IdInputs(MaxLayerId) :
          Present(state.textLayers, id) /\ deleteTextLayer(id) =>
              IF state.selectedLayerId = id
              THEN state'.selectedLayerId =
                      IF state'.textLayers = <<>>
                      THEN NULL_ID
                      ELSE IdOf(state'.textLayers[1])
              ELSE state'.selectedLayerId = state.selectedLayerId]_vars

-----------------------------------------------------------------------------
\* The sequence without its layers of the given id.
Without(textLayers, id) ==
    SelectSeq(textLayers, LAMBDA l : ~(IsLayer(l) /\ l.id = id))

\* C7: DeleteTextLayer(id) removes exactly the layer with that id: the layer
\* sequence after it is the sequence before without that layer (the others
\* unchanged, in the same order), and baseImage and nextLayerId are unchanged.
C7_DeleteRemovesExactly ==
    [][\A id \in IdInputs(MaxLayerId) :
          deleteTextLayer(id) =>
              /\ state'.textLayers = Without(state.textLayers, id)
              /\ state'.baseImage = state.baseImage
              /\ state'.nextLayerId = state.nextLayerId]_vars

-----------------------------------------------------------------------------
\* C8: for any state and the id of a layer that is neither first nor last in
\* the sequence, MoveLayerUp(id) followed at once by MoveLayerDown(id) gives
\* the original layer sequence.
C8_UpThenDownRestores ==
    \A id \in IdInputs(MaxLayerId) :
        (\E i \in 2..(Len(state.textLayers) - 1) :
            IsLayer(state.textLayers[i]) /\ state.textLayers[i].id = id)
        => After(After(state, [type |-> "MOVE_LAYER_UP", payload |-> id]),
                 [type |-> "MOVE_LAYER_DOWN", payload |-> id]).textLayers
             = state.textLayers

-----------------------------------------------------------------------------
\* C9: MoveLayerUp with the id of the last layer of the sequence and
\* MoveLayerDown with the id of the layer at index 0 leave the layer sequence
\* unchanged.
C9_BoundaryNoOps ==
    [][\A id \in IdInputs(MaxLayerId) :
          /\ state.textLayers # <<>>
          => LET top == state.textLayers[Len(state.textLayers)]
                 bottom == state.textLayers[1]
             IN  /\ IsLayer(top) /\ top.id = id /\ moveLayerUp(id)
                      => state'.textLayers = state.textLayers
                 /\ IsLayer(bottom) /\ bottom.id = id /\ moveLayerDown(id)
                      => state'.textLayers = state.textLayers]_vars

-----------------------------------------------------------------------------
\* One value for each field of a layer, as a single-field partial field set.
SingleFieldUpdates ==
    {[id |-> 0], [text |-> "TOP TEXT"], [x |-> 0], [y |-> 120],
     [fontSize |-> 80], [fontFamily |-> "Arial, sans-serif"],
     [color |-> "#FF0000"], [strokeColor |-> "#FFFFFF"], [strokeWidth |-> 0],
     [textAlign |-> "left"], [rotation |-> 45], [width |-> 200],
     [height |-> 100]}

\* C10: UpdateTextLayer(id, {f: v}) for one field f and the id of an existing
\* layer changes nothing but field f of the layer with that id: its other
\* fields, every other layer, the order of the layers, selectedLayerId,
\* nextLayerId and baseImage are the same before and after.
C10_UpdateIsolated ==
    \A id \in IdInputs(MaxLayerId), p \in SingleFieldUpdates :
        Present(state.textLayers, id) =>
            LET after == After(state, [type |-> "UPDATE_TEXT_LAYER",
                                       payload |-> [id |-> id, updates |-> p]])
            IN  /\ Len(after.textLayers) = Len(state.textLayers)
                /\ \A i \in 1..Len(state.textLayers) :
                      IF IsLayer(state.textLayers[i]) /\ state.textLayers[i].id = id
                      THEN /\ DOMAIN after.textLayers[i] = DOMAIN state.textLayers[i]
                           /\ \A g \in DOMAIN state.textLayers[i] \ DOMAIN p :
                                 after.textLayers[i][g] = state.textLayers[i][g]
                      ELSE after.textLayers[i] = state.textLayers[i]
                /\ after.selectedLayerId = state.selectedLayerId
                /\ after.nextLayerId = state.nextLayerId
                /\ after.baseImage = state.baseImage

\* Layer 2 alone carries the updated font size, next to an untouched layer 1.
C10_Witness ==
    /\ Len(state.textLayers) = 2
    /\ state.textLayers[1] = newLayer([nextLayerId |-> 1])
    /\ state.textLayers[2] = [newLayer([nextLayerId |-> 2]) EXCEPT !.fontSize = 80]

-----------------------------------------------------------------------------
\* C11: AddTextLayer() from any state appends exactly one new layer at the end
\* of the sequence, with id equal to the nextLayerId of the state before and
\* the defaults x=50, y=50, width=300, height=60, rotation=0; it sets
\* selectedLayerId to that id, increments nextLayerId by one and leaves the
\* layers that were there and baseImage unchanged.
C11_AddAppends ==
    LET after == After(state, [type |-> "ADD_TEXT_LAYER"])
        n == Len(state.textLayers)
    IN  /\ Len(after.textLayers) = n + 1
        /\ \A i \in 1..n : after.textLayers[i] = state.textLayers[i]
        /\ after.textLayers[n + 1].id = state.nextLayerId
        /\ after.textLayers[n + 1].x = 50
        /\ after.textLayers[n + 1].y = 50
        /\ after.textLayers[n + 1].width = 300
        /\ after.textLayers[n + 1].height = 60
        /\ after.textLayers[n + 1].rotation = 0
        /\ after.selectedLayerId = state.nextLayerId
        /\ after.nextLayerId = state.nextLayerId + 1
        /\ after.baseImage = state.baseImage

\* A layer was added on top of an edited layer while another layer id had
\* already been used: the new layer is last, selected, and carries id 3.
C11_Witness ==
    /\ Len(state.textLayers) = 2
    /\ state.textLayers[1] = [newLayer([nextLayerId |-> 1]) EXCEPT !.fontSize = 80]
    /\ state.textLayers[2] = newLayer([nextLayerId |-> 3])
    /\ state.selectedLayerId = 3
    /\ state.nextLayerId = 4

-----------------------------------------------------------------------------
\* C12: after any sequence of transitions, Reset() yields exactly the initial
\* state: baseImage = null, layers = empty, selectedLayerId = null,
\* nextLayerId = 1.
C12_ResetYieldsInitial ==
    After(state, [type |-> "RESET"]) =
        [baseImage |-> NULL_IMAGE,
         textLayers |-> <<>>,
         selectedLayerId |-> NULL_ID,
         nextLayerId |-> 1]

\* Reset applies to a state with an image, three layers, one of them edited,
\* and a selection.
C12_Witness ==
    /\ state.baseImage = "img1"
    /\ Len(state.textLayers) = 3
    /\ \E i \in 1..3 : IsLayer(state.textLayers[i]) /\ state.textLayers[i].fontSize = 80
    /\ state.selectedLayerId = 2
    /\ state.nextLayerId = 4
    /\ After(state, [type |-> "RESET"]).nextLayerId = 1

-----------------------------------------------------------------------------
\* Image references given to SetBaseImage in C13.
ImageInputs2 == {"img1", "img2"}

\* C13: from any state SetBaseImage(u) yields layers = empty, selectedLayerId
\* = null and baseImage = u, and SetBaseImage(u) applied a second time in a
\* row yields the same state as applied once.
C13_SetBaseImageIdempotent ==
    \A u \in ImageInputs2 :
        LET once == After(state, [type |-> "SET_BASE_IMAGE", payload |-> u])
            twice == After(once, [type |-> "SET_BASE_IMAGE", payload |-> u])
        IN  /\ once.textLayers = <<>>
            /\ once.selectedLayerId = NULL_ID
            /\ once.baseImage = u
            /\ twice = once

\* SetBaseImage cleared two layers and the selection; the counter shows that
\* the two layers had been added.
C13_Witness ==
    /\ state.baseImage = "img1"
    /\ state.textLayers = <<>>
    /\ state.selectedLayerId = NULL_ID
    /\ state.nextLayerId = 3

-----------------------------------------------------------------------------
\* The states of the scenario, run from the current state of the store.
Scenario1 == After(state, [type |-> "SET_BASE_IMAGE", payload |-> "img1"])
Scenario2 == After(Scenario1, [type |-> "ADD_TEXT_LAYER"])
Scenario3 == After(Scenario2, [type |-> "ADD_TEXT_LAYER"])
Scenario4 == After(Scenario3, [type |-> "MOVE_LAYER_UP", payload |-> 1])
Scenario5 == After(Scenario4, [type |-> "DELETE_TEXT_LAYER", payload |-> 2])

\* C14: from the initial state, SetBaseImage("img1") then AddTextLayer() twice
\* gives layer ids 1 and 2, selectedLayerId = 2 and sequence [1,2]; then
\* MoveLayerUp(1) gives sequence [2,1]; then DeleteTextLayer(2) gives
\* sequence [1] and selectedLayerId = 1.
C14_Scenario ==
    state = initialState =>
        /\ Ids(Scenario3.textLayers) = <<1, 2>>
        /\ Scenario3.selectedLayerId = 2
        /\ Ids(Scenario4.textLayers) = <<2, 1>>
        /\ Ids(Scenario5.textLayers) = <<1>>
        /\ Scenario5.selectedLayerId = 1

\* The store is in the last state of the scenario.
C14_Witness ==
    /\ state.baseImage = "img1"
    /\ Ids(state.textLayers) = <<1>>
    /\ state.selectedLayerId = 1
    /\ state.nextLayerId = 3
    /\ created = <<1, 2>>

-----
(* C19 *)

\* C19: the canvas interaction is never in drag state and text-edit state at
\* the same time: in no reachable state is dragging set while editingLayer
\* is set.
C19_NoDragWhileEditing ==
    ~(dragging # NULL_ID /\ editingLayer # NULL_ID)

-----------------------------------------------------------------------------
(* C20 *)

\* The layers whose unrotated box contains the pointer, by place in the sequence.
Containing(textLayers, pt) ==
    {i \in 1..Len(textLayers) :
        /\ textLayers[i].x <= pt.x /\ pt.x <= textLayers[i].x + textLayers[i].width
        /\ textLayers[i].y <= pt.y /\ pt.y <= textLayers[i].y + textLayers[i].height}

\* The latest of them in the sequence, 0 if there is none.
Topmost(textLayers, pt) ==
    LET c == Containing(textLayers, pt)
    IN  IF c = {} THEN 0 ELSE CHOOSE i \in c : \A j \in c : j <= i

\* The same layers with layer k turned to r degrees.
Rotated(textLayers, k, r) == [textLayers EXCEPT ![k].rotation = r]

RotationProbes == {0, 45, 90}

\* C20: a press and a double-click hit, among the layers whose unrotated box
\* contains the pointer, the one latest in the sequence, and hit nothing when
\* no box contains it; turning any layer leaves the hit as it is; on a press
\* hit exactly that layer becomes selected and the drag target, on a
\* double-click hit that layer's text is edited.
C20_HitTopmost ==
    [][\A pt \in PointerInputs :
        LET top == Topmost(state.textLayers, pt)
            last == Len(state.textLayers) - 1
        IN  /\ handleMouseDown(pt.x, pt.y) =>
                 IF top = 0
                 THEN UNCHANGED <<state, dragging, dragStart>>
                 ELSE /\ state'.selectedLayerId = state.textLayers[top].id
                      /\ dragging' = state.textLayers[top].id
                      /\ state'.textLayers = state.textLayers
            /\ handleDoubleClick(pt.x, pt.y) =>
                 editingLayer' = IF top = 0 THEN editingLayer
                                 ELSE state.textLayers[top].id
            /\ \A k \in 1..Len(state.textLayers), r \in RotationProbes :
                 hitLoop(Rotated(state.textLayers, k, r), last, pt.x, pt.y)
                    = hitLoop(state.textLayers, last, pt.x, pt.y)
      ]_vars

\* A press has hit the later of two layers that both contain the pointer,
\* the earlier one turned by 45 degrees.
C20_Witness ==
    /\ Len(state.textLayers) = 2
    /\ Containing(state.textLayers, [x |-> 60, y |-> 60]) = {1, 2}
    /\ state.textLayers[1].rotation = 45
    /\ dragging = state.textLayers[2].id
    /\ state.selectedLayerId = state.textLayers[2].id

-----------------------------------------------------------------------------
(* C16 *)

\* The canvas shows the base image and the layers of s.
Shows(s) ==
    /\ surface.image = s.baseImage
    /\ [i \in 1..Len(surface.layers) |-> surface.layers[i].layer] = s.textLayers

\* C16: once every pending image load has completed, the canvas shows the
\* base image and the layers of the current state, whatever the order in
\* which the loads completed.
C16_FinalPictureIsCurrent ==
    (loads = <<>> /\ Truthy(state.baseImage)) => Shows(state)

-----------------------------------------------------------------------------
(* C17 *)

RenderInFlight == \E i \in 1..Len(inflight) : inflight[i].kind = "render"

\* C17: when every render request has completed and the most recently issued
\* one has succeeded, the preview shown is the result of the most recently
\* issued request, whatever the order in which the responses arrived.
C17_LastIssuedWins ==
    (~RenderInFlight /\ renderLog.outcome = "ok")
        => preview = [blobOf |-> renderLog.issued]

\* C17 as amended: the preview shown is the result of the request whose
\* successful response arrived last (none before the first success).
C17_LastCompletedWins ==
    preview = IF renderLog.completed = NULL_PREVIEW
              THEN NULL_PREVIEW
              ELSE [blobOf |-> renderLog.completed]

\* Two requests overlapped, both have succeeded, and the response of the
\* earlier one arrived last: the preview is not that of the later request.
C17_Witness ==
    /\ ~RenderInFlight
    /\ renderLog.outcome = "ok"
    /\ preview # NULL_PREVIEW
    /\ preview # [blobOf |-> renderLog.issued]
    /\ preview = [blobOf |-> renderLog.completed]

-----------------------------------------------------------------------------
(* C18 *)

\* The step changes baseImage or the layers.
Changes ==
    \/ state'.baseImage # state.baseImage
    \/ state'.textLayers # state.textLayers

\* The timer set by the render of state s.
TimerOf(s) == [baseImage |-> s.baseImage, textLayers |-> s.textLayers, current |-> TRUE]

\* The step sends exactly one render request, with the image and the layers
\* of the current state, and leaves no timer pending.
SendsOneForCurrent ==
    /\ timers' = <<>>
    /\ Len(inflight') = Len(inflight) + 1
    /\ inflight'[Len(inflight')].kind = "render"
    /\ inflight'[Len(inflight')].payload = memeData(state.baseImage, state.textLayers)

\* C18: at most one debounce timer is pending; every change of baseImage or
\* the layers sends nothing and leaves exactly one timer pending, that of
\* the state of this change, so that a burst of changes ends with one timer;
\* when the timer fires, exactly one render request is sent, carrying the
\* state of the last change.
C18_OneRequestPerBurst ==
    [][/\ Len(timers') <= 1
       /\ Changes => (inflight' = inflight /\ timers' = <<TimerOf(state')>>)
       /\ \A i \in Places : timerFires(i, MaxInflight) => SendsOneForCurrent
      ]_vars

\* C18 as amended: as above, but the timer is left pending only if the state
\* of the change has a base image and at least one layer; otherwise no timer
\* is pending and the burst sends no request.
C18_OneRequestPerDrawableBurst ==
    [][/\ Len(timers') <= 1
       /\ Changes =>
            /\ inflight' = inflight
            /\ timers' = IF Truthy(state'.baseImage) /\ Len(state'.textLayers) > 0
                         THEN <<TimerOf(state')>>
                         ELSE <<>>
       /\ \A i \in Places : timerFires(i, MaxInflight) => SendsOneForCurrent
      ]_vars

\* After a burst of three changes (image, new layer, font size) the timer has
\* fired and the one request in flight carries the state of the last change.
C18_Witness ==
    /\ timers = <<>>
    /\ Len(state.textLayers) = 1
    /\ state.textLayers[1].fontSize = 80
    /\ Len(inflight) = 1
    /\ inflight[1].kind = "render"
    /\ inflight[1].payload = memeData(state.baseImage, state.textLayers)
    /\ preview = NULL_PREVIEW

-----------------------------------------------------------------------------
(* C15 *)

\* What the awaited call at place i of inflight gives its handler on response.
Outcome(i, response) ==
    IF inflight[i].kind = "render"
    THEN renderMeme(inflight[i].payload, response)
    ELSE viaHandleResponse(response)

\* The call at place i settles on response in this step.
Settles(i, response) ==
    \/ templatesSettled(i, response)
    \/ uploadSettled(i, response)
    \/ renderSettled(i, response)
    \/ shareSettled(i, response)

\* The message is the visible error of the panel that issued the call, and
\* the error of the other panel is as it was.
ErrorShown(kind, message) ==
    /\ message \notin {NULL_TEXT, ""}
    /\ IF kind \in {"templates", "upload"}
       THEN leftError' = message /\ rightError' = rightError
       ELSE rightError' = message /\ leftError' = leftError

\* The responses on which some call fails.
FailingResponses == FailureInputs \cup {okUnparsable}

\* C15: when a call to the backend fails, the editor state is exactly what
\* it was when the call was issued, and the failure's message is the visible
\* error of the panel.
C15_FailureLeavesStateAsIssued ==
    [][\A i \in Places, r \in FailingResponses :
          (Settles(i, r) /\ Outcome(i, r).thrown) =>
              /\ state' = inflight[i].before
              /\ ErrorShown(inflight[i].kind, Outcome(i, r).message)
      ]_vars

\* C15 as amended: the failure changes no field of the editor state, which
\* stays what it was just before the failure arrived (with the changes made
\* since the call was issued), and the failure's message is the visible
\* error of the panel.
C15_FailureLeavesStateUntouched ==
    [][\A i \in Places, r \in FailingResponses :
          (Settles(i, r) /\ Outcome(i, r).thrown) =>
              /\ state' = state
              /\ ErrorShown(inflight[i].kind, Outcome(i, r).message)
      ]_vars

\* An upload and a render have failed, each with the fallback message of its
\* call, and the image chosen meanwhile is still there.
C15_Witness ==
    /\ leftError = "Request failed"
    /\ rightError = "Render failed"
    /\ inflight = <<>>
    /\ state.baseImage = "img2"

-----------------------------------------------------------------------------
(* C21 *)

\* The layer of textLayers with this id (the ids of the layers the user
\* interface makes are distinct).
LayerById(textLayers, id) ==
    textLayers[CHOOSE i \in 1..Len(textLayers) : textLayers[i].id = id]

\* The ids of the layers of textLayers.
IdSet(textLayers) == {IdOf(textLayers[i]) : i \in 1..Len(textLayers)}

\* The pointer minus the offset, not below zero.
Clamped(p, offset) == IF p - offset < 0 THEN 0 ELSE p - offset

\* The step is a pointer move on the canvas.
IsMove(pt) == handleMouseMove(pt.x, pt.y)

\* C21: every layer's x and y are non-negative; a move while dragging sets
\* the x and y of the dragged layer to max(0, pointer - offset recorded at
\* press) and changes no other layer; no other step changes the x or y of a
\* layer.
C21_PositionsNonNegative ==
    [][/\ \A i \in 1..Len(state'.textLayers) :
            state'.textLayers[i].x >= 0 /\ state'.textLayers[i].y >= 0
       /\ \A pt \in DragInputs :
            (dragging # NULL_ID /\ IsMove(pt)) =>
                /\ Len(state'.textLayers) = Len(state.textLayers)
                /\ \A i \in 1..Len(state.textLayers) :
                      IF state.textLayers[i].id = dragging
                      THEN state'.textLayers[i] =
                              [state.textLayers[i] EXCEPT
                                  !.x = Clamped(pt.x, dragStart.x),
                                  !.y = Clamped(pt.y, dragStart.y)]
                      ELSE state'.textLayers[i] = state.textLayers[i]
       /\ (\A pt \in DragInputs : ~IsMove(pt)) =>
             \A id \in IdSet(state.textLayers) \cap IdSet(state'.textLayers) :
                /\ LayerById(state'.textLayers, id).x = LayerById(state.textLayers, id).x
                /\ LayerById(state'.textLayers, id).y = LayerById(state.textLayers, id).y
      ]_vars

\* A drag towards the canvas corner has stopped the dragged layer at (0, 0)
\* and left the other layer where it was made.
C21_Witness ==
    /\ Len(state.textLayers) = 2
    /\ dragging = state.textLayers[2].id
    /\ state.textLayers[2].x = 0
    /\ state.textLayers[2].y = 0
    /\ state.textLayers[1].x = 50
    /\ state.textLayers[1].y = 50

-----------------------------------------------------------------------------
(* C22 *)

\* A pointer move at pt would change the Layer Store.
MoveChangesStore(pt) == ENABLED (IsMove(pt) /\ state' # state)

\* C22: once the pointer has been released or has left the canvas, and until
\* a press hits a layer, no drag is active; and when no drag is active a
\* pointer move does not change the Layer Store.
C22_ReleaseEndsDrag ==
    /\ ~pressed => dragging = NULL_ID
    /\ dragging = NULL_ID => \A pt \in DragInputs : ~MoveChangesStore(pt)

\* A layer has been dragged away from where it was made and the pointer has
\* been released over the canvas.
C22_Witness ==
    /\ Truthy(state.baseImage)
    /\ ~pressed
    /\ dragging = NULL_ID
    /\ Len(state.textLayers) = 1
    /\ state.textLayers[1].x = 0
    /\ state.textLayers[1].y = 0

-----------------------------------------------------------------------------
(* C23 *)

\* textLayers with newText as the text of the layer with this id, and
\* nothing else changed.
WithText(textLayers, id, newText) ==
    [i \in 1..Len(textLayers) |->
        IF textLayers[i].id = id
        THEN [textLayers[i] EXCEPT !.text = newText]
        ELSE textLayers[i]]

\* C23: committing the text edit changes the text of the layer being edited
\* (the one that was double-clicked) and nothing else in the Layer Store, and
\* closes the modal; cancelling closes the modal and leaves the Layer Store
\* as it is.
C23_TextEdit ==
    [][/\ \A newText \in TextInputs :
            handleTextEdit(newText) =>
                /\ state' = [state EXCEPT
                       !.textLayers = WithText(state.textLayers, editingLayer, newText)]
                /\ editingLayer' = NULL_ID
       /\ cancelTextEdit =>
            /\ state' = state
            /\ editingLayer' = NULL_ID
      ]_vars

\* The edit of the earlier layer has been committed while the later layer,
\* dragged away from it, is the selected one.
C23_Witness ==
    /\ Len(state.textLayers) = 2
    /\ editingLayer = NULL_ID
    /\ state.selectedLayerId = state.textLayers[2].id
    /\ state.textLayers[1].text = "Hi"
    /\ state.textLayers[2].text # "Hi"

-----------------------------------------------------------------------------
(* C24 *)

\* The size every layer is made with.
MadeWidth == 300
MadeHeight == 60

\* C24: every layer is 300 wide and 60 high, whatever the user has done to
\* it by dragging, editing its text and changing the controls of the right
\* panel.
C24_SizeFixed ==
    \A i \in 1..Len(state.textLayers) :
        /\ state.textLayers[i].width = MadeWidth
        /\ state.textLayers[i].height = MadeHeight

\* A layer that every control has been used on and that is being dragged.
C24_Witness ==
    /\ Len(state.textLayers) = 1
    /\ dragging = state.textLayers[1].id
    /\ state.textLayers[1].text = "Hi"
    /\ state.textLayers[1].fontSize = 80
    /\ state.textLayers[1].rotation = 45
    /\ state.textLayers[1].fontFamily = "Arial"
    /\ state.textLayers[1].color = "#000000"
    /\ state.textLayers[1].strokeColor = "#FFFFFF"
    /\ state.textLayers[1].strokeWidth = 4
    /\ state.textLayers[1].textAlign = "center"
    /\ state.textLayers[1].width = MadeWidth
    /\ state.textLayers[1].height = MadeHeight

-----------------------------------------------------------------------------
(* C25 *)

\* The layers drawn on the canvas with the dashed selection rectangle.
Marked == {i \in 1..Len(surface.layers) : surface.layers[i].selection}

\* The layers drawn on the canvas whose id is the selected one.
SelectedOnSurface ==
    {i \in 1..Len(surface.layers) :
        surface.layers[i].layer.id = state.selectedLayerId}

\* C25: when no image load is pending and a base image is set, the dashed
\* selection rectangle on the canvas marks exactly the layer whose id is
\* selectedLayerId, and no layer when that is null.
C25_SelectionShown ==
    (loads = <<>> /\ Truthy(state.baseImage)) => Marked = SelectedOnSurface

-----------------------------------------------------------------------------
(* C26 *)

\* C26: the rendering flag of the preview panel is true in every state in
\* which a render request is in flight, also when an automatic request and
\* an earlier one overlap.
C26_RenderingWhileInFlight == RenderInFlight => rendering

====
